---------------------------- MODULE Spec2Model ----------------------------
(***************************************************************************)
(* Model of the affine-scaling iteration engine of ipsolver                *)
(* (src/src/interior.rs).                                                  *)
(*                                                                         *)
(* Numbers.  The program computes in f64.  The model computes in a         *)
(* floating-point arithmetic in base 1e8 with two digits whose digits are  *)
(* exact rationals: a number is  e^k * (n0 + n1*e) / d  with e = 1e-8,     *)
(* n0 # 0 unless the number is zero, and d > 0.  Two base-1e8 digits are   *)
(* 16 decimal digits, the precision of f64 (2^-53 ~ 1.1e-16): a term that  *)
(* is e^2 or more below the leading digit is dropped by every operation,   *)
(* as f64 rounding drops it (1e16 + 1e-8 = 1e16), and a cancellation       *)
(* fills the lost digit with zero.  The literals of the program are exact: *)
(* 1e-8 is e, 1e-3 is 1/1000, 0.5 is 1/2.                                  *)
(***************************************************************************)
EXTENDS Integers, Sequences, FiniteSets, TLC

(* ------------------------------ numbers -------------------------------- *)

AbsI(i) == IF i < 0 THEN -i ELSE i

RECURSIVE GCD(_, _)
GCD(a, b) == IF b = 0 THEN a ELSE GCD(b, a % b)

Zero == [k |-> 0, n0 |-> 0, n1 |-> 0, d |-> 1]

\* the number e^k * (n0 + n1*e) / d in normal form
Norm(k, n0, n1, d) ==
    IF n0 = 0 /\ n1 = 0 THEN Zero
    ELSE IF n0 = 0
         THEN LET g == GCD(AbsI(n1), d)
              IN  [k |-> k + 1, n0 |-> n1 \div g, n1 |-> 0, d |-> d \div g]
         ELSE LET g == GCD(GCD(AbsI(n0), AbsI(n1)), d)
              IN  [k |-> k, n0 |-> n0 \div g, n1 |-> n1 \div g, d |-> d \div g]

FromInt(i) == Norm(0, i, 0, 1)
Rat(p, q) == Norm(0, p, 0, q)
One == FromInt(1)

IsZero(a) == a.n0 = 0
Sign(a) == IF a.n0 > 0 THEN 1 ELSE IF a.n0 < 0 THEN -1 ELSE 0

Neg(a) == [a EXCEPT !.n0 = -a.n0, !.n1 = -a.n1]
AbsF(a) == IF a.n0 < 0 THEN Neg(a) ELSE a

\* a + b where a's leading digit is at or above b's
AddOrdered(a, b) ==
    LET g  == GCD(a.d, b.d)
        fa == b.d \div g
        fb == a.d \div g
        dd == a.d * fa
    IN  IF b.k - a.k >= 2 THEN a
        ELSE IF b.k - a.k = 1
             THEN Norm(a.k, a.n0 * fa, a.n1 * fa + b.n0 * fb, dd)
             ELSE Norm(a.k, a.n0 * fa + b.n0 * fb, a.n1 * fa + b.n1 * fb, dd)

Add(a, b) ==
    IF IsZero(a) THEN b
    ELSE IF IsZero(b) THEN a
    ELSE IF a.k <= b.k THEN AddOrdered(a, b) ELSE AddOrdered(b, a)

Sub(a, b) == Add(a, Neg(b))

Mul(a, b) ==
    IF IsZero(a) \/ IsZero(b) THEN Zero
    ELSE LET g1 == GCD(GCD(AbsI(a.n0), AbsI(a.n1)), b.d)
             g2 == GCD(GCD(AbsI(b.n0), AbsI(b.n1)), a.d)
             a0 == a.n0 \div g1
             a1 == a.n1 \div g1
             b0 == b.n0 \div g2
             b1 == b.n1 \div g2
         IN  Norm(a.k + b.k, a0 * b0, a0 * b1 + a1 * b0,
                  (a.d \div g2) * (b.d \div g1))

\* 1 / (n0 + n1*e) = (n0 - n1*e) / n0^2 up to e^2
Recip(a) ==
    LET g  == GCD(AbsI(a.n0), AbsI(a.n1))
        m0 == a.n0 \div g
        m1 == a.n1 \div g
        s  == IF m0 < 0 THEN -1 ELSE 1
    IN  Norm(-a.k, s * a.d * m0, -s * a.d * m1, g * m0 * m0)

Div(a, b) == Mul(a, Recip(b))

Lt(a, b) == Sign(Sub(a, b)) < 0
Le(a, b) == Sign(Sub(a, b)) <= 0
Max(a, b) == IF Lt(a, b) THEN b ELSE a
Min(a, b) == IF Lt(b, a) THEN b ELSE a

(* --------------------------- program literals -------------------------- *)

\* 1e-8: the clamp of create_d_matrix, the regularization of
\* calculate_p_matrix and the threshold on v
Eps == Norm(1, 1, 0, 1)
\* 1e-3 and 0.5: the clamp of the step factor
FactorLower == Rat(1, 1000)
FactorUpper == Rat(1, 2)

(* ---------------------------- linear algebra --------------------------- *)

\* a vector is a sequence of numbers, a matrix a sequence of rows
NRows(a) == Len(a)
NCols(a) == Len(a[1])

RECURSIVE SumTo(_, _)
\* f[1] + ... + f[j], accumulated from zero in index order
SumTo(f, j) == IF j = 0 THEN Zero ELSE Add(SumTo(f, j - 1), f[j])

Dot(u, w) == SumTo([j \in 1..Len(u) |-> Mul(u[j], w[j])], Len(u))

Transpose(a) == [j \in 1..NCols(a) |-> [i \in 1..NRows(a) |-> a[i][j]]]

MatMul(a, b) ==
    [i \in 1..NRows(a) |->
        [j \in 1..NCols(b) |-> Dot(a[i], [t \in 1..NRows(b) |-> b[t][j]])]]

MatVec(a, u) == [i \in 1..NRows(a) |-> Dot(a[i], u)]

MatAdd(a, b) == [i \in 1..NRows(a) |-> [j \in 1..NCols(a) |-> Add(a[i][j], b[i][j])]]
MatSub(a, b) == [i \in 1..NRows(a) |-> [j \in 1..NCols(a) |-> Sub(a[i][j], b[i][j])]]
MatScale(a, s) == [i \in 1..NRows(a) |-> [j \in 1..NCols(a) |-> Mul(a[i][j], s)]]

Identity(n) == [i \in 1..n |-> [j \in 1..n |-> IF i = j THEN One ELSE Zero]]

\* DMatrix::try_inverse for the dimensions 1 and 2, the closed forms nalgebra
\* uses: the determinant is tested against zero and divides every entry
try_inverse(mtx) ==
    IF NRows(mtx) = 1
    THEN IF IsZero(mtx[1][1])
         THEN [ok |-> FALSE]
         ELSE [ok |-> TRUE, inv |-> <<<<Div(One, mtx[1][1])>>>>]
    ELSE LET m11 == mtx[1][1]
             m12 == mtx[1][2]
             m21 == mtx[2][1]
             m22 == mtx[2][2]
             determinant == Sub(Mul(m11, m22), Mul(m21, m12))
         IN  IF IsZero(determinant)
             THEN [ok |-> FALSE]
             ELSE [ok |-> TRUE,
                   inv |-> << <<Div(m22, determinant), Neg(Div(m12, determinant))>>,
                              <<Neg(Div(m21, determinant)), Div(m11, determinant)>> >>]

(* ------------------------------ the engine ----------------------------- *)

\* variant: D = diag(x) without the clamp
create_d_matrix_unclamped(x) ==
    [i \in 1..Len(x) |-> [j \in 1..Len(x) |-> IF i = j THEN x[i] ELSE Zero]]

\* D = diag(x), each diagonal entry at least 1e-8
create_d_matrix(x) ==
    [i \in 1..Len(x) |-> [j \in 1..Len(x) |-> IF i = j THEN Max(x[i], Eps) ELSE Zero]]

calculate_a_tilde(a, d) == MatMul(a, d)

calculate_c_tilde(c, d) == MatVec(d, c)

\* variant: the normal-equations matrix without the regularization
regularized_plain(a_tilde) == MatMul(a_tilde, Transpose(a_tilde))

\* the regularized normal-equations matrix A~ A~^T + 1e-8 I
regularized(a_tilde) ==
    MatAdd(MatMul(a_tilde, Transpose(a_tilde)),
           MatScale(Identity(NRows(a_tilde)), Eps))

\* variant: the inverse is tested for but the matrix itself is multiplied in
calculate_p_matrix_no_inverse(a_tilde) ==
    LET mtx == regularized(a_tilde)
    IN  IF ~try_inverse(mtx).ok
        THEN [ok |-> FALSE]
        ELSE [ok |-> TRUE,
              p  |-> MatSub(Identity(NCols(a_tilde)),
                            MatMul(MatMul(Transpose(a_tilde), mtx), a_tilde))]

\* P = I - A~^T (A~ A~^T + 1e-8 I)^(-1) A~, or the SingularMatrix error
calculate_p_matrix(a_tilde) ==
    LET mtx == regularized(a_tilde)
        r   == try_inverse(mtx)
    IN  IF ~r.ok
        THEN [ok |-> FALSE]
        ELSE [ok |-> TRUE,
              p  |-> MatSub(Identity(NCols(a_tilde)),
                            MatMul(MatMul(Transpose(a_tilde), r.inv), a_tilde))]

calculate_cp_vector(p, c_tilde) == MatVec(p, c_tilde)

RECURSIVE largest_negative(_, _)
\* v after the first j entries of cp: the largest |val| among the val < 0
largest_negative(cp, j) ==
    IF j = 0 THEN Zero
    ELSE LET v == largest_negative(cp, j - 1)
         IN  IF Lt(cp[j], Zero) /\ Lt(v, AbsF(cp[j])) THEN AbsF(cp[j]) ELSE v

\* variant: the test written with <= instead of <
no_improvement_le(v) == Le(v, Eps)

\* variant: the test written as v == 0.0
no_improvement_exact(v) == IsZero(v)

\* the test that ends the iteration with NoImprovement
no_improvement(v) == Lt(v, Eps)

\* variant: the raw step length, without the clamp
step_factor_unclamped(alpha, v) == Div(alpha, v)

\* factor = (alpha / v).min(0.5).max(1e-3)
step_factor(alpha, v) == Max(Min(Div(alpha, v), FactorUpper), FactorLower)

\* variant: the step taken against cp, x_new = D * (1 - factor * cp)
next_x_descent(d, factor, cp) ==
    MatVec(d, [i \in 1..Len(cp) |-> Sub(One, Mul(factor, cp[i]))])

\* x_new = D * (1 + factor * cp)
next_x(d, factor, cp) ==
    MatVec(d, [i \in 1..Len(cp) |-> Add(One, Mul(factor, cp[i]))])

(* ------------------------------- inputs -------------------------------- *)

\* 5e-9, a positive entry below the clamp, and 1e8, an entry whose square
\* absorbs the regularization
Tiny == Norm(1, 1, 0, 2)
Big == Norm(-1, 1, 0, 1)

AMatrices ==
    { << <<One, One>> >>,
      << <<Zero, Zero>> >>,
      << <<One, FromInt(2)>> >>,
      << <<One, One>>, <<Zero, Zero>> >>,
      << <<One, Zero>>, <<Zero, One>> >>,
      << <<Big, Big>>, <<Big, Big>> >> }

CVectors ==
    { <<FromInt(-1), FromInt(-1)>>, <<One, Zero>>, <<Zero, One>>,
      <<FromInt(-1), One>>, <<Zero, Zero>>, <<One, One>>,
      <<FromInt(-1), Zero>>, <<FromInt(4000), Zero>> }
XValues == {FromInt(-1), Zero, Tiny, One, FromInt(2)}
AlphaValues == {Rat(1, 2), Rat(9, 10)}
BValue == FromInt(4)

Problems ==
    { [a_matrix |-> a,
       b_vector |-> [i \in 1..NRows(a) |-> BValue],
       c_vector |-> c,
       x_vector |-> <<x1, x2>>,
       alpha    |-> al] :
         a \in AMatrices, c \in CVectors,
         x1 \in XValues, x2 \in XValues, al \in AlphaValues }

(* ---------------------------- state machine ---------------------------- *)

\* the number of engine calls in one behaviour
MaxCalls == 2
\* the largest numerator or denominator of an iterate the engine is called on
MaxCoef == 12
\* the number of edits of the input form in one behaviour
MaxEdits == 2

VARIABLES
    problem,      \* the InteriorPointProblem the caller holds
    outcome,      \* the result of the last call: "none" before the first
    snapshot,     \* the InteriorPointIteration the last call returned
    before,       \* the Problem as it was when the last call began
    initial,      \* the Problem as constructed
    calls,        \* the number of calls made
    \* the local values of the last call, Unset where the call returned earlier
    loc_d, loc_a_tilde, loc_c_tilde, loc_p, loc_cp, loc_v, loc_factor, loc_new_x,
    \* the fields of App (components/mod.rs)
    problem_size, current_problem, interior_iterations, maximize, done, error_message,
    request,      \* the last StartInteriorPoint message App received
    event,        \* the name of the last message handled
    form,         \* the InputForm (components/input_form.rs), a record of its fields
    edits         \* the number of edits of the form

locals == <<loc_d, loc_a_tilde, loc_c_tilde, loc_p, loc_cp, loc_v, loc_factor, loc_new_x>>
engine == <<problem, outcome, snapshot, before, initial, calls, locals>>
app == <<problem_size, current_problem, interior_iterations, maximize, done, error_message>>
vars == <<problem, outcome, snapshot, before, initial, calls, locals,
          app, request, event, form, edits>>

Unset == [unset |-> TRUE]
NoSnapshot == [none |-> TRUE]

Small(a) == AbsI(a.n0) <= MaxCoef /\ AbsI(a.n1) <= MaxCoef /\ a.d <= MaxCoef

\* the digits of the iterate are small enough for the arithmetic of the checker
Representable(x) == \A i \in 1..Len(x) : Small(x[i])

IsZeroMatrix(a) == \A i \in 1..NRows(a) : \A j \in 1..NCols(a) : IsZero(a[i][j])

\* the test v < 1e-8 is decided by the arithmetic and not by the rounding of
\* the cancellation in I - A~^T M^(-1) A~: v is zero, or a factor 2 away from
\* 1e-8, or A~ is zero (P is then exactly I and cp exactly c~)
Decisive(a_tilde, v) ==
    \/ IsZeroMatrix(a_tilde)
    \/ IsZero(v)
    \/ Le(v, Mul(Rat(1, 2), Eps))
    \/ Le(Mul(FromInt(2), Eps), v)

NoProblem == [none |-> TRUE]
NoRequest == [none |-> TRUE]
NoMessage == "None"
NoSize == <<>>

\* App::create
AppCreate ==
    /\ problem_size = NoSize
    /\ current_problem = NoProblem
    /\ interior_iterations = <<>>
    /\ maximize = TRUE
    /\ done = FALSE
    /\ error_message = NoMessage
    /\ request = NoRequest

\* InputForm::create
InputFormCreate ==
    [variables         |-> 2,
     constraints       |-> 2,
     objective_coeffs  |-> <<Zero, Zero>>,
     constraint_coeffs |-> << <<Zero, Zero>>, <<Zero, Zero>> >>,
     constraint_signs  |-> <<"<=", "<=">>,
     rhs_values        |-> <<Zero, Zero>>,
     maximization      |-> TRUE,
     alpha             |-> Rat(1, 2),
     initial_feasible  |-> <<One, One>>,
     augmented_model   |-> FALSE]

\* the page as loaded: both components created, no message handled
PageCreate ==
    /\ AppCreate
    /\ form = InputFormCreate
    /\ edits = 0
    /\ event = "none"

Init ==
    /\ PageCreate
    /\ problem \in Problems
    /\ outcome = "none"
    /\ snapshot = NoSnapshot
    /\ before = problem
    /\ initial = problem
    /\ calls = 0
    /\ loc_d = Unset /\ loc_a_tilde = Unset /\ loc_c_tilde = Unset /\ loc_p = Unset
    /\ loc_cp = Unset /\ loc_v = Unset /\ loc_factor = Unset /\ loc_new_x = Unset

\* variants of the call: "early_update" places step 9 (the write of x)
\* before the test on v, "shrink_alpha" halves alpha when no improving
\* direction is found, "check_feasible" rejects a start with A x # b
iteration_variant(p, mode) ==
    IF mode = "check_feasible" /\ MatVec(p.a_matrix, p.x_vector) # p.b_vector
    THEN /\ loc_d' = Unset /\ loc_a_tilde' = Unset /\ loc_c_tilde' = Unset
         /\ loc_p' = [ok |-> FALSE]
         /\ loc_cp' = Unset /\ loc_v' = Unset /\ loc_factor' = Unset /\ loc_new_x' = Unset
         /\ outcome' = "NotFeasible"
         /\ snapshot' = NoSnapshot
         /\ problem' = p
    ELSE
    /\ loc_d' = create_d_matrix(p.x_vector)
    /\ loc_a_tilde' = calculate_a_tilde(p.a_matrix, loc_d')
    /\ loc_c_tilde' = calculate_c_tilde(p.c_vector, loc_d')
    /\ loc_p' = calculate_p_matrix(loc_a_tilde')
    /\ IF ~loc_p'.ok
       THEN /\ loc_cp' = Unset /\ loc_v' = Unset /\ loc_factor' = Unset /\ loc_new_x' = Unset
            /\ outcome' = "SingularMatrix"
            /\ snapshot' = NoSnapshot
            /\ problem' = p
       ELSE /\ loc_cp' = calculate_cp_vector(loc_p'.p, loc_c_tilde')
            /\ loc_v' = largest_negative(loc_cp', Len(loc_cp'))
            /\ loc_factor' = IF IsZero(loc_v') THEN FactorUpper ELSE step_factor(p.alpha, loc_v')
            /\ loc_new_x' = next_x(loc_d', loc_factor', loc_cp')
            /\ IF no_improvement(loc_v')
               THEN /\ outcome' = "NoImprovement"
                    /\ snapshot' = NoSnapshot
                    /\ problem' = IF mode = "early_update"
                                  THEN [p EXCEPT !.x_vector = loc_new_x']
                                  ELSE IF mode = "shrink_alpha"
                                  THEN [p EXCEPT !.alpha = Mul(p.alpha, Rat(1, 2))]
                                  ELSE p
               ELSE /\ outcome' = "Ok"
                    /\ problem' = [p EXCEPT !.x_vector = loc_new_x']
                    /\ snapshot' = [d_matrix       |-> loc_d',
                                    a_tilde_matrix |-> loc_a_tilde',
                                    c_tilde_vector |-> loc_c_tilde',
                                    p_matrix       |-> loc_p'.p,
                                    cp_vector      |-> loc_cp',
                                    current_x      |-> loc_new_x']

perform_interior_point_iteration_early_update(p) == iteration_variant(p, "early_update")
perform_interior_point_iteration_shrink_alpha(p) == iteration_variant(p, "shrink_alpha")
perform_interior_point_iteration_check_feasible(p) == iteration_variant(p, "check_feasible")

\* one call on the Problem p: its local values in order, the result, the
\* Problem after the call and the snapshot returned
perform_interior_point_iteration(p) ==
    /\ loc_d' = create_d_matrix(p.x_vector)
    /\ loc_a_tilde' = calculate_a_tilde(p.a_matrix, loc_d')
    /\ loc_c_tilde' = calculate_c_tilde(p.c_vector, loc_d')
    /\ loc_p' = calculate_p_matrix(loc_a_tilde')
    /\ IF ~loc_p'.ok
       THEN /\ loc_cp' = Unset /\ loc_v' = Unset /\ loc_factor' = Unset /\ loc_new_x' = Unset
            /\ outcome' = "SingularMatrix"
            /\ snapshot' = NoSnapshot
            /\ problem' = p
       ELSE /\ loc_cp' = calculate_cp_vector(loc_p'.p, loc_c_tilde')
            /\ loc_v' = largest_negative(loc_cp', Len(loc_cp'))
            /\ IF no_improvement(loc_v')
               THEN /\ loc_factor' = Unset /\ loc_new_x' = Unset
                    /\ outcome' = "NoImprovement"
                    /\ snapshot' = NoSnapshot
                    /\ problem' = p
               ELSE /\ loc_factor' = step_factor(p.alpha, loc_v')
                    /\ loc_new_x' = next_x(loc_d', loc_factor', loc_cp')
                    /\ problem' = [p EXCEPT !.x_vector = loc_new_x']
                    /\ outcome' = "Ok"
                    /\ snapshot' = [d_matrix       |-> loc_d',
                                    a_tilde_matrix |-> loc_a_tilde',
                                    c_tilde_vector |-> loc_c_tilde',
                                    p_matrix       |-> loc_p'.p,
                                    cp_vector      |-> loc_cp',
                                    current_x      |-> loc_new_x']

\* the caller invokes perform_interior_point_iteration on its Problem
Iterate ==
    /\ calls < MaxCalls
    /\ Representable(problem.x_vector)
    /\ perform_interior_point_iteration(problem)
    /\ loc_p'.ok => Decisive(loc_a_tilde', loc_v')
    /\ before' = problem
    /\ calls' = calls + 1
    /\ UNCHANGED initial
    /\ UNCHANGED <<app, request, event, form, edits>>

Next == Iterate

Spec == Init /\ [][Next]_vars

(* ---------------------------- the controller --------------------------- *)

\* the call on a Problem without variables (n = 0): D, c~, P and cp are
\* empty, A~ A~^T + 1e-8 I is 1e-8 I and is inverted, v stays 0.0
perform_interior_point_iteration_on_empty(p) ==
    /\ loc_d' = <<>>
    /\ loc_a_tilde' = p.a_matrix
    /\ loc_c_tilde' = <<>>
    /\ loc_p' = [ok |-> TRUE, p |-> <<>>]
    /\ loc_cp' = <<>>
    /\ loc_v' = Zero
    /\ no_improvement(loc_v')
    /\ loc_factor' = Unset /\ loc_new_x' = Unset
    /\ outcome' = "NoImprovement"
    /\ snapshot' = NoSnapshot
    /\ problem' = p

\* App invokes the engine on the Problem p it holds
call_engine(p) ==
    /\ calls < MaxCalls
    /\ IF Len(p.x_vector) = 0
       THEN perform_interior_point_iteration_on_empty(p)
       ELSE /\ Representable(p.x_vector)
            /\ perform_interior_point_iteration(p)
            /\ loc_p'.ok => Decisive(loc_a_tilde', loc_v')
    /\ before' = p
    /\ calls' = calls + 1

\* 1e-4, the floor of a start point that App has to pad
InitialFloor == Rat(1, 10000)

\* Msg::SetProblemSize
SetProblemSize(v, c) ==
    /\ problem_size' = <<v, c>>
    /\ UNCHANGED <<current_problem, interior_iterations, maximize, done, error_message>>
    /\ UNCHANGED <<engine, request>>

\* variants of the handler: "keep_iterations" keeps the earlier snapshots,
\* "flip_maximize" flips the sign of c for a maximization
start_variant(a, b, c, alpha, init, mx, mode) ==
    /\ call_engine([a_matrix |-> a,
                    b_vector |-> b,
                    c_vector |-> [i \in 1..Len(c) |->
                                    Mul(c[i], IF mx = (mode = "flip_maximize")
                                              THEN FromInt(-1) ELSE One)],
                    x_vector |-> init,
                    alpha    |-> alpha])
    /\ initial' = before'
    /\ current_problem' = problem'
    /\ maximize' = mx
    /\ IF outcome' = "Ok"
       THEN /\ interior_iterations' =
                  IF mode = "keep_iterations"
                  THEN Append(interior_iterations, snapshot')
                  ELSE <<snapshot'>>
            /\ done' = FALSE
            /\ error_message' = NoMessage
       ELSE /\ interior_iterations' =
                  IF mode = "keep_iterations" THEN interior_iterations ELSE <<>>
            /\ done' = TRUE
            /\ error_message' = outcome'
    /\ request' = [a |-> a, b |-> b, c |-> c, alpha |-> alpha,
                   initial |-> init, maximize |-> mx]
    /\ UNCHANGED problem_size

StartInteriorPoint_keep_iterations(a, b, c, alpha, init, mx) ==
    start_variant(a, b, c, alpha, init, mx, "keep_iterations")
StartInteriorPoint_flip_maximize(a, b, c, alpha, init, mx) ==
    start_variant(a, b, c, alpha, init, mx, "flip_maximize")

\* Msg::StartInteriorPoint: the Problem is built, the session is replaced
\* and the first iteration is performed
StartInteriorPoint(a, b, c, alpha, init, mx) ==
    LET final_n == NCols(a)
        feasible_x ==
            IF Len(init) = final_n
            THEN init
            ELSE [i \in 1..final_n |->
                    IF i <= Len(init) THEN Max(init[i], InitialFloor) ELSE One]
        sign == IF mx THEN One ELSE FromInt(-1)
        new_c == [i \in 1..Len(c) |-> Mul(c[i], sign)]
    IN  /\ call_engine([a_matrix |-> a,
                        b_vector |-> b,
                        c_vector |-> new_c,
                        x_vector |-> feasible_x,
                        alpha    |-> alpha])
        /\ initial' = before'
        /\ current_problem' = problem'
        /\ maximize' = mx
        /\ IF outcome' = "Ok"
           THEN /\ interior_iterations' = <<snapshot'>>
                /\ done' = FALSE
                /\ error_message' = NoMessage
           ELSE /\ interior_iterations' = <<>>
                /\ done' = TRUE
                /\ error_message' = outcome'
        /\ request' = [a |-> a, b |-> b, c |-> c, alpha |-> alpha,
                       initial |-> init, maximize |-> mx]
        /\ UNCHANGED problem_size

\* variants of the handler: "ignore_done" leaves the test on done out,
\* "prepend" puts the new snapshot in front of the list, "from_initial"
\* iterates from the x the Problem was constructed with, "report_error"
\* stores the engine's error in error_message
next_step_variant(mode) ==
    IF current_problem = NoProblem \/ (done /\ mode # "ignore_done")
    THEN UNCHANGED <<engine, app, request>>
    ELSE /\ call_engine(IF mode = "from_initial"
                        THEN [current_problem EXCEPT !.x_vector = initial.x_vector]
                        ELSE current_problem)
         /\ UNCHANGED initial
         /\ current_problem' = problem'
         /\ IF outcome' = "Ok"
            THEN /\ interior_iterations' =
                       IF mode = "prepend"
                       THEN <<snapshot'>> \o interior_iterations
                       ELSE Append(interior_iterations, snapshot')
                 /\ done' = done
            ELSE interior_iterations' = interior_iterations /\ done' = TRUE
         /\ error_message' = IF mode = "report_error" /\ outcome' # "Ok"
                              THEN outcome'
                              ELSE error_message
         /\ UNCHANGED <<problem_size, maximize, request>>

NextStep_ignore_done == next_step_variant("ignore_done")
NextStep_prepend == next_step_variant("prepend")
NextStep_from_initial == next_step_variant("from_initial")
NextStep_report_error == next_step_variant("report_error")

\* Msg::NextStep: nothing without a Problem or when done, else one engine
\* call on the Problem held
NextStep ==
    IF current_problem = NoProblem \/ done
    THEN UNCHANGED <<engine, app, request>>
    ELSE /\ call_engine(current_problem)
         /\ UNCHANGED initial
         /\ current_problem' = problem'
         /\ IF outcome' = "Ok"
            THEN interior_iterations' = Append(interior_iterations, snapshot') /\ done' = done
            ELSE interior_iterations' = interior_iterations /\ done' = TRUE
         /\ UNCHANGED <<problem_size, maximize, error_message, request>>

\* variant: the Problem is kept
Reset_keep_problem ==
    /\ problem_size' = NoSize
    /\ interior_iterations' = <<>>
    /\ done' = FALSE
    /\ error_message' = NoMessage
    /\ UNCHANGED <<current_problem, maximize>>
    /\ UNCHANGED <<engine, request>>

\* Msg::Reset
Reset ==
    /\ problem_size' = NoSize
    /\ current_problem' = NoProblem
    /\ interior_iterations' = <<>>
    /\ done' = FALSE
    /\ error_message' = NoMessage
    /\ UNCHANGED maximize
    /\ UNCHANGED <<engine, request>>

\* variant: a new start point clears done
SetInitialPoint_resume(x) ==
    /\ IF current_problem = NoProblem
       THEN UNCHANGED <<current_problem, done>>
       ELSE /\ current_problem' = [current_problem EXCEPT !.x_vector = x]
            /\ done' = FALSE
    /\ UNCHANGED <<problem_size, interior_iterations, maximize, error_message>>
    /\ UNCHANGED <<engine, request>>

\* Msg::SetInitialPoint
SetInitialPoint(x) ==
    /\ current_problem' = IF current_problem = NoProblem
                          THEN current_problem
                          ELSE [current_problem EXCEPT !.x_vector = x]
    /\ UNCHANGED <<problem_size, interior_iterations, maximize, done, error_message>>
    /\ UNCHANGED <<engine, request>>

\* the messages App is sent in the session model: sizes, start points and
\* StartInteriorPoint messages the form can emit in its augmented mode
SizeInputs == {<<1, 1>>, <<2, 1>>}
PointInputs == {<<One, FromInt(2)>>, <<One, Zero>>}
StartInputs ==
    { [a |-> a, b |-> [i \in 1..NRows(a) |-> BValue], c |-> c, alpha |-> Rat(1, 2),
       initial |-> x, maximize |-> mx] :
         a \in { << <<One, One>> >>,
                 << <<One, One>>, <<Zero, Zero>> >>,
                 << <<Big, Big>>, <<Big, Big>> >> },
         c \in { <<FromInt(-1), FromInt(-1)>>, <<FromInt(-1), One>>, <<Rat(1, 2), Zero>> },
         x \in { <<One, One>> },
         mx \in BOOLEAN }

AppInit ==
    /\ PageCreate
    /\ problem = NoProblem
    /\ outcome = "none"
    /\ snapshot = NoSnapshot
    /\ before = NoProblem
    /\ initial = NoProblem
    /\ calls = 0
    /\ loc_d = Unset /\ loc_a_tilde = Unset /\ loc_c_tilde = Unset /\ loc_p = Unset
    /\ loc_cp = Unset /\ loc_v = Unset /\ loc_factor = Unset /\ loc_new_x = Unset

AppSetProblemSize ==
    /\ \E s \in SizeInputs : SetProblemSize(s[1], s[2])
    /\ event' = "SetProblemSize"
    /\ UNCHANGED <<form, edits>>

AppStartInteriorPoint ==
    /\ \E r \in StartInputs :
          StartInteriorPoint(r.a, r.b, r.c, r.alpha, r.initial, r.maximize)
    /\ event' = "StartInteriorPoint"
    /\ UNCHANGED <<form, edits>>

AppNextStep ==
    /\ NextStep
    /\ event' = "NextStep"
    /\ UNCHANGED <<form, edits>>

AppReset ==
    /\ Reset
    /\ event' = "Reset"
    /\ UNCHANGED <<form, edits>>

AppSetInitialPoint ==
    /\ \E x \in PointInputs : SetInitialPoint(x)
    /\ event' = "SetInitialPoint"
    /\ UNCHANGED <<form, edits>>

AppNext ==
    \/ AppSetProblemSize
    \/ AppStartInteriorPoint
    \/ AppNextStep
    \/ AppReset
    \/ AppSetInitialPoint

AppSpec == AppInit /\ [][AppNext]_vars

(* ----------------------------- the input form -------------------------- *)

\* Props::max_variables, the default App leaves in place
max_variables == 10

\* Vec::resize
vec_resize(q, n, fill) == [i \in 1..n |-> IF i <= Len(q) THEN q[i] ELSE fill]

\* InputForm::resize
resize(f) ==
    LET rows == vec_resize(f.constraint_coeffs, f.constraints,
                           [j \in 1..f.variables |-> Zero])
    IN  [f EXCEPT
            !.objective_coeffs  = vec_resize(@, f.variables, Zero),
            !.constraint_coeffs = [i \in 1..f.constraints |->
                                      vec_resize(rows[i], f.variables, Zero)],
            !.constraint_signs  = vec_resize(@, f.constraints,
                                             IF f.augmented_model THEN "=" ELSE "<="),
            !.rhs_values        = vec_resize(@, f.constraints, Zero),
            !.initial_feasible  = vec_resize(@, f.variables, One)]

\* the handlers of InputForm::update, each the form after the message; the
\* indices of the messages count from 0
SetVariables(f, v) ==
    resize([f EXCEPT !.variables = IF v < max_variables THEN v ELSE max_variables])

SetConstraints(f, c) == resize([f EXCEPT !.constraints = c])

UpdateObjectiveCoeff(f, j, val) ==
    IF j < Len(f.objective_coeffs)
    THEN [f EXCEPT !.objective_coeffs[j + 1] = val]
    ELSE f

UpdateConstraintCoeff(f, i, j, val) ==
    IF i < Len(f.constraint_coeffs) /\ j < Len(f.constraint_coeffs[i + 1])
    THEN [f EXCEPT !.constraint_coeffs[i + 1][j + 1] = val]
    ELSE f

UpdateRHSValue(f, i, val) ==
    IF i < Len(f.rhs_values) THEN [f EXCEPT !.rhs_values[i + 1] = val] ELSE f

ToggleOptimizationType(f) == [f EXCEPT !.maximization = ~f.maximization]

\* self.alpha = a.max(0.0).min(1.0)
UpdateAlpha(f, a) == [f EXCEPT !.alpha = Min(Max(a, Zero), One)]

UpdateInitialPoint(f, idx, val) ==
    IF idx < Len(f.initial_feasible)
    THEN [f EXCEPT !.initial_feasible[idx + 1] = val]
    ELSE f

SetAugmentedModel(f, val) ==
    [f EXCEPT !.augmented_model = val,
              !.constraint_signs =
                  [i \in 1..Len(f.constraint_signs) |->
                      IF val THEN "="
                      ELSE IF f.constraint_signs[i] = "=" THEN "<="
                      ELSE f.constraint_signs[i]]]

UpdateConstraintSign(f, i, sign) ==
    IF i < Len(f.constraint_signs)
    THEN [f EXCEPT !.constraint_signs[i + 1] = sign]
    ELSE f

IsInequality(sign) == sign = "<=" \/ sign = ">="

slack_count(f) ==
    Cardinality({i \in 1..Len(f.constraint_signs) : IsInequality(f.constraint_signs[i])})

\* InputForm::create_matrix_form: (A, b, c), with one slack column for each
\* inequality unless the model is entered as augmented
create_matrix_form(f) ==
    IF f.augmented_model
    THEN [a |-> [i \in 1..f.constraints |->
                    [j \in 1..f.variables |-> f.constraint_coeffs[i][j]]],
          b |-> [i \in 1..f.constraints |-> f.rhs_values[i]],
          c |-> f.objective_coeffs]
    ELSE LET n == f.variables + slack_count(f)
             multiplier(i) == IF f.constraint_signs[i] = ">=" THEN FromInt(-1) ELSE One
             slack_index(i) ==
                 Cardinality({t \in 1..(i - 1) : IsInequality(f.constraint_signs[t])})
         IN  [a |-> [i \in 1..f.constraints |->
                       [j \in 1..n |->
                          IF j <= f.variables
                          THEN Mul(multiplier(i), f.constraint_coeffs[i][j])
                          ELSE IF /\ IsInequality(f.constraint_signs[i])
                                  /\ j - f.variables - 1 = slack_index(i)
                               THEN One
                               ELSE Zero]],
              b |-> [i \in 1..f.constraints |-> Mul(multiplier(i), f.rhs_values[i])],
              c |-> vec_resize(f.objective_coeffs, n, Zero)]

\* the start point Submit sends: the form's, extended by 1.0 for each slack
initial_point(f) ==
    IF f.augmented_model
    THEN f.initial_feasible
    ELSE f.initial_feasible \o [i \in 1..slack_count(f) |-> One]

\* the values the user enters
VariableInputs == {0, 1, 3}
ConstraintInputs == {1, 2}
IndexInputs == {0, 5}
CoeffInputs == {FromInt(-1), One}
AlphaInputs == {FromInt(-1), Rat(9, 10), FromInt(2)}
SignInputs == {">=", "="}

\* an edit of the form: the handler's result, nothing sent to App
Edit(f, name) ==
    /\ edits < MaxEdits
    /\ form' = f
    /\ edits' = edits + 1
    /\ event' = name

FormSetVariables ==
    /\ \E v \in VariableInputs : Edit(SetVariables(form, v), "SetVariables")
    /\ SetProblemSize(form'.variables, form'.constraints)

FormSetConstraints ==
    /\ \E c \in ConstraintInputs : Edit(SetConstraints(form, c), "SetConstraints")
    /\ SetProblemSize(form'.variables, form'.constraints)

FormUpdateObjectiveCoeff ==
    /\ \E j \in IndexInputs, val \in CoeffInputs :
          Edit(UpdateObjectiveCoeff(form, j, val), "UpdateObjectiveCoeff")
    /\ UNCHANGED <<engine, app, request>>

FormUpdateConstraintCoeff ==
    /\ \E i \in IndexInputs :
          Edit(UpdateConstraintCoeff(form, i, 0, One), "UpdateConstraintCoeff")
    /\ UNCHANGED <<engine, app, request>>

FormUpdateRHSValue ==
    /\ \E i \in IndexInputs : Edit(UpdateRHSValue(form, i, BValue), "UpdateRHSValue")
    /\ UNCHANGED <<engine, app, request>>

FormToggleOptimizationType ==
    /\ Edit(ToggleOptimizationType(form), "ToggleOptimizationType")
    /\ UNCHANGED <<engine, app, request>>

FormUpdateAlpha ==
    /\ \E a \in AlphaInputs : Edit(UpdateAlpha(form, a), "UpdateAlpha")
    /\ UNCHANGED <<engine, app, request>>

FormUpdateInitialPoint ==
    /\ \E idx \in IndexInputs :
          Edit(UpdateInitialPoint(form, idx, FromInt(2)), "UpdateInitialPoint")
    /\ UNCHANGED <<engine, app, request>>

FormSetAugmentedModel ==
    /\ \E val \in BOOLEAN : Edit(SetAugmentedModel(form, val), "SetAugmentedModel")
    /\ UNCHANGED <<engine, app, request>>

FormUpdateConstraintSign ==
    /\ \E i \in IndexInputs, sign \in SignInputs :
          Edit(UpdateConstraintSign(form, i, sign), "UpdateConstraintSign")
    /\ UNCHANGED <<engine, app, request>>

\* Msg::Submit: the matrix form is sent to App, which handles it as
\* StartInteriorPoint
FormSubmit ==
    /\ StartInteriorPoint(create_matrix_form(form).a,
                          create_matrix_form(form).b,
                          create_matrix_form(form).c,
                          form.alpha,
                          initial_point(form),
                          form.maximization)
    /\ event' = "Submit"
    /\ UNCHANGED <<form, edits>>

FormNext ==
    \/ FormSetVariables
    \/ FormSetConstraints
    \/ FormUpdateObjectiveCoeff
    \/ FormUpdateConstraintCoeff
    \/ FormUpdateRHSValue
    \/ FormToggleOptimizationType
    \/ FormUpdateAlpha
    \/ FormUpdateInitialPoint
    \/ FormSetAugmentedModel
    \/ FormUpdateConstraintSign
    \/ FormSubmit

FormSpec == AppInit /\ [][FormNext]_vars

(* ------------------------------ properties ----------------------------- *)

Called == calls > 0

AllPositive(x) == \A i \in 1..Len(x) : Lt(Zero, x[i])

\* the magnitudes of the negative entries of a vector
NegativeMagnitudes(u) == {AbsF(u[i]) : i \in {j \in 1..Len(u) : Lt(u[j], Zero)}}

LargestOf(S) == CHOOSE m \in S : \A o \in S : Le(o, m)

Clamp(q, lo, hi) == IF Lt(q, lo) THEN lo ELSE IF Lt(hi, q) THEN hi ELSE q

\* C1: whenever the call returns an error (NoImprovement or SingularMatrix),
\* the Problem is exactly as it was before the call: x_vector, a_matrix,
\* b_vector, c_vector and alpha are unchanged.
C1_ErrorLeavesProblem ==
    outcome \in {"NoImprovement", "SingularMatrix"} => problem = before

\* a call on a Problem with x > 0 that failed with SingularMatrix
C1_Witness ==
    /\ calls = 1
    /\ outcome = "SingularMatrix"
    /\ AllPositive(before.x_vector)

\* C2 (as claimed): from a Problem whose x is strictly positive and whose
\* alpha is in (0,1), every component of x is still strictly positive after
\* any sequence of successful calls.
C2_PositiveStaysPositive ==
    ( /\ AllPositive(initial.x_vector)
      /\ Lt(Zero, initial.alpha) /\ Lt(initial.alpha, One) )
        => AllPositive(problem.x_vector)

\* C3: given that the projector was computed, the call returns NoImprovement
\* if and only if cp has no negative component or the largest magnitude among
\* its negative components is below 1e-8; otherwise it returns a snapshot.
C3_NoImprovementIff ==
    (Called /\ outcome # "SingularMatrix") =>
        LET negs == NegativeMagnitudes(loc_cp)
            none == negs = {} \/ Lt(LargestOf(negs), Eps)
        IN  /\ outcome = "NoImprovement" <=> none
            /\ outcome = "Ok" <=> ~none
            /\ outcome = "Ok" => snapshot.cp_vector = loc_cp

\* NoImprovement returned although cp has negative components
C3_Witness ==
    /\ Called
    /\ outcome = "NoImprovement"
    /\ NegativeMagnitudes(loc_cp) # {}

\* C4: on success x_new[i] = D[i,i] * (1 + factor * cp[i]) with
\* factor = alpha / v clamped into [1e-3, 0.5]; x_new is written into
\* Problem.x, the snapshot's current_x is the Problem's x after the call, and
\* nothing of the Problem other than x changes.
C4_StepWritten ==
    outcome = "Ok" =>
        LET factor == Clamp(Div(before.alpha, LargestOf(NegativeMagnitudes(snapshot.cp_vector))),
                            FactorLower, FactorUpper)
        IN  /\ \A i \in 1..Len(before.x_vector) :
                 problem.x_vector[i] =
                     Mul(snapshot.d_matrix[i][i],
                         Add(One, Mul(factor, snapshot.cp_vector[i])))
            /\ snapshot.current_x = problem.x_vector
            /\ [problem EXCEPT !.x_vector = before.x_vector] = before

\* a successful call whose raw step length alpha / v lies strictly inside
\* the clamp
C4_Witness ==
    /\ outcome = "Ok"
    /\ LET q == Div(before.alpha, LargestOf(NegativeMagnitudes(snapshot.cp_vector)))
       IN  Lt(FactorLower, q) /\ Lt(q, FactorUpper)

HasZeroRow(a) == \E i \in 1..NRows(a) : \A j \in 1..NCols(a) : IsZero(a[i][j])

\* C5 (as claimed): an all-zero row of A~ makes the regularized matrix
\* non-invertible, so the call returns SingularMatrix.
C5_ZeroRowSingular ==
    (Called /\ HasZeroRow(loc_a_tilde)) => outcome = "SingularMatrix"

\* C5 (amended): an all-zero row of A~ puts exactly 1e-8 on the diagonal of
\* the regularized matrix and zeros in the rest of its row and column, so
\* (with one or two constraints) the matrix is inverted and the call does not
\* return SingularMatrix.
C5_ZeroRowRegularized ==
    (Called /\ HasZeroRow(loc_a_tilde)) =>
        LET mtx == regularized(loc_a_tilde)
        IN  /\ outcome # "SingularMatrix"
            /\ \A i \in 1..NRows(loc_a_tilde) :
                 (\A j \in 1..NCols(loc_a_tilde) : IsZero(loc_a_tilde[i][j])) =>
                    \A t \in 1..NRows(loc_a_tilde) :
                        /\ mtx[i][t] = (IF t = i THEN Eps ELSE Zero)
                        /\ mtx[t][i] = (IF t = i THEN Eps ELSE Zero)

\* a successful call on a Problem whose A~ has an all-zero row next to a
\* non-zero one
C5_Witness ==
    /\ Called
    /\ outcome = "Ok"
    /\ HasZeroRow(loc_a_tilde)
    /\ ~IsZeroMatrix(loc_a_tilde)

\* C6: the call never returns NotFeasible, also for a Problem whose x does
\* not satisfy A x = b: its result is a snapshot, NoImprovement or
\* SingularMatrix.
C6_NeverNotFeasible ==
    /\ outcome \in {"none", "Ok", "NoImprovement", "SingularMatrix"}
    /\ Called => outcome # "none"

\* a successful call from a point that violates A x = b
C6_Witness ==
    /\ Called
    /\ outcome = "Ok"
    /\ MatVec(before.a_matrix, before.x_vector) # before.b_vector

\* C7: after NoImprovement, a further call on the unchanged Problem returns
\* NoImprovement again and leaves the Problem unchanged, any number of times.
C7_NoImprovementRepeats ==
    [][outcome = "NoImprovement" =>
          (outcome' = "NoImprovement" /\ problem' = problem)]_vars

\* a second call that returned NoImprovement on the Problem as constructed
C7_Witness ==
    /\ calls = 2
    /\ outcome = "NoImprovement"
    /\ problem = initial

IsScenario(q) ==
    /\ q.a_matrix = << <<One, One>> >>
    /\ q.b_vector = <<FromInt(4)>>
    /\ q.c_vector = <<FromInt(-1), FromInt(-1)>>
    /\ q.x_vector = <<One, One>>
    /\ q.alpha = Rat(1, 2)

\* C8 (as claimed): for A = [1, 1], b = [4], c = [-1, -1], x0 = [1, 1],
\* alpha = 0.5 the first call returns NoImprovement because cp has no
\* strictly negative entry.
C8_NoNegativeEntry ==
    (calls = 1 /\ IsScenario(before)) =>
        (outcome = "NoImprovement" /\ NegativeMagnitudes(loc_cp) = {})

\* C8 (amended): for that input the first call returns NoImprovement because
\* both entries of cp are strictly negative, of a magnitude near 5e-9 that
\* the regularization leaves, between 2.5e-9 and 1e-8.
C8_BelowThreshold ==
    (calls = 1 /\ IsScenario(before)) =>
        /\ outcome = "NoImprovement"
        /\ loc_d = Identity(2)
        /\ \A i \in 1..2 :
              /\ Lt(loc_cp[i], Zero)
              /\ Lt(Mul(Rat(1, 4), Eps), AbsF(loc_cp[i]))
              /\ Lt(AbsF(loc_cp[i]), Eps)

\* the first call on that input has returned
C8_Witness ==
    /\ calls = 1
    /\ IsScenario(before)
    /\ outcome = "NoImprovement"

\* C9 (as claimed): D is diagonal with D[i,i] = x[i] when x[i] > 0 and
\* D[i,i] = 1e-8 when x[i] <= 0, for the x that was current when the step
\* began.
C9_ClampOnlyNonPositive ==
    Called =>
        \A i \in 1..Len(before.x_vector) : \A j \in 1..Len(before.x_vector) :
            loc_d[i][j] = IF i # j THEN Zero
                          ELSE IF Lt(Zero, before.x_vector[i]) THEN before.x_vector[i]
                          ELSE Eps

\* C9 (amended): D is diagonal with D[i,i] = max(x[i], 1e-8): x[i] when
\* x[i] >= 1e-8 and 1e-8 when x[i] < 1e-8, a positive x[i] below 1e-8
\* included; the snapshot's D is built from the x that was current when the
\* step began.
C9_ClampBelowEps ==
    Called =>
        /\ \A i \in 1..Len(before.x_vector) : \A j \in 1..Len(before.x_vector) :
             loc_d[i][j] = IF i # j THEN Zero
                           ELSE IF Le(Eps, before.x_vector[i]) THEN before.x_vector[i]
                           ELSE Eps
        /\ outcome = "Ok" => snapshot.d_matrix = loc_d

\* a successful call from an x with a positive component below 1e-8
C9_Witness ==
    /\ outcome = "Ok"
    /\ \E i \in 1..Len(before.x_vector) :
          /\ Lt(Zero, before.x_vector[i])
          /\ Lt(before.x_vector[i], Eps)
          /\ snapshot.d_matrix[i][i] = Eps
          /\ problem.x_vector[i] # before.x_vector[i]

\* the determinant of a matrix with one or two rows
Det(mtx) ==
    IF NRows(mtx) = 1 THEN mtx[1][1]
    ELSE Sub(Mul(mtx[1][1], mtx[2][2]), Mul(mtx[2][1], mtx[1][2]))

\* A~ A~^T is at least 1 on its diagonal and in its determinant
WellConditioned(a_tilde) ==
    LET g == MatMul(a_tilde, Transpose(a_tilde))
    IN  /\ \A i \in 1..NRows(g) : Le(One, g[i][i])
        /\ Le(One, Det(g))

\* the tolerance of the projector tests: 1e-7
Tol == Mul(FromInt(10), Eps)

Idempotence(pm) == MatSub(MatMul(pm, pm), pm)

\* C10: the matrix P that calculate_p_matrix returns for a well-conditioned
\* A~ is a projector within tolerance: every entry of P P - P is below 1e-7
\* in magnitude.
C10_ProjectorIdempotent ==
    (Called /\ loc_p.ok /\ WellConditioned(loc_a_tilde)) =>
        \A i \in 1..NCols(loc_a_tilde) : \A j \in 1..NCols(loc_a_tilde) :
            Lt(AbsF(Idempotence(loc_p.p)[i][j]), Tol)

\* a projector of a well-conditioned A~ for which P P differs from P
C10_Witness ==
    /\ Called
    /\ loc_p.ok
    /\ WellConditioned(loc_a_tilde)
    /\ ~IsZeroMatrix(Idempotence(loc_p.p))

NegVec(u) == [i \in 1..Len(u) |-> Neg(u[i])]

HasProblem == current_problem # NoProblem

\* C11 (as claimed): the c of the Problem App holds is the c of the
\* StartInteriorPoint message with its sign flipped if and only if the
\* message says maximize.
C11_FlippedForMaximize ==
    HasProblem =>
        current_problem.c_vector =
            IF request.maximize THEN NegVec(request.c) ELSE request.c

\* C11 (amended): the c of the Problem App holds is the c of the
\* StartInteriorPoint message with its sign flipped if and only if the
\* message says minimize (maximize = false); a maximization objective is
\* passed through unchanged. The Problem as constructed has this c already
\* and every later engine call leaves it, so the flip is applied once.
C11_FlippedForMinimize ==
    HasProblem =>
        /\ maximize = request.maximize
        /\ initial.c_vector = IF request.maximize THEN request.c ELSE NegVec(request.c)
        /\ before.c_vector = initial.c_vector
        /\ current_problem.c_vector = initial.c_vector

\* a second successful call in a minimization session with a non-zero c
C11_Witness ==
    /\ HasProblem
    /\ event = "NextStep"
    /\ outcome = "Ok"
    /\ Len(interior_iterations) = 2
    /\ ~request.maximize
    /\ \E i \in 1..Len(request.c) : ~IsZero(request.c[i])
    /\ current_problem.c_vector = NegVec(request.c)

AtLeastEps(x) == \A i \in 1..Len(x) : Le(Eps, x[i])

Cost(q) == Dot(q.c_vector, q.x_vector)

\* C12 (as claimed): after every successful call the cost c^T x of the new
\* iterate is not greater than the cost of the iterate the step began with.
C12_CostNotGreater ==
    outcome = "Ok" => Le(Cost(problem), Cost(before))

\* C12 (amended): the engine performs an ascent step on Problem.c: after
\* every successful call that began with every component of x at least
\* 1e-8 and with a well-conditioned A~, the cost c^T x of the new iterate is
\* not smaller than the cost of the iterate the step began with.
C12_CostNotSmaller ==
    (outcome = "Ok" /\ AtLeastEps(before.x_vector) /\ WellConditioned(loc_a_tilde)) =>
        Le(Cost(before), Cost(problem))

\* a successful call from an interior point that has raised the cost
C12_Witness ==
    /\ outcome = "Ok"
    /\ AtLeastEps(before.x_vector)
    /\ WellConditioned(loc_a_tilde)
    /\ Lt(Cost(before), Cost(problem))

Last(q) == q[Len(q)]

\* C13: once done is true with a Problem held, a NextStep does not invoke
\* the engine and leaves the Problem, the snapshot list, done and
\* error_message unchanged.
C13_DoneRefusesNextStep ==
    [][(done /\ HasProblem /\ event' = "NextStep") =>
          /\ calls' = calls
          /\ UNCHANGED <<engine, app>>]_vars

\* a NextStep handled after a Start that failed: the only engine call is the
\* one of the Start
C13_Witness ==
    /\ event = "NextStep"
    /\ done
    /\ HasProblem
    /\ error_message # NoMessage
    /\ calls = 1

\* C14: a Reset, from any state, leaves no Problem, an empty snapshot list,
\* done false and no error message; a NextStep that follows does nothing.
C14_ResetToReady ==
    [][/\ event' = "Reset" =>
            /\ current_problem' = NoProblem
            /\ interior_iterations' = <<>>
            /\ done' = FALSE
            /\ error_message' = NoMessage
            /\ problem_size' = NoSize
       /\ (event = "Reset" /\ event' = "NextStep") =>
            /\ calls' = calls
            /\ UNCHANGED <<engine, app>>]_vars

\* a NextStep handled after the Reset of a session that had run
C14_Witness ==
    /\ event = "NextStep"
    /\ calls > 0
    /\ ~HasProblem
    /\ problem_size = NoSize
    /\ interior_iterations = <<>>

\* C15: between a Start and the next Start or Reset the snapshot list only
\* grows at its end: a successful engine call appends its snapshot, a failed
\* call and every other event leave the list as it is.
C15_AppendOnly ==
    [][event' \notin {"StartInteriorPoint", "Reset"} =>
          IF calls' = calls + 1 /\ outcome' = "Ok"
          THEN interior_iterations' = Append(interior_iterations, snapshot')
          ELSE interior_iterations' = interior_iterations]_vars

\* two snapshots in iteration order, the second from a NextStep
C15_Witness ==
    /\ event = "NextStep"
    /\ Len(interior_iterations) = 2
    /\ interior_iterations[2] = snapshot
    /\ interior_iterations[1].current_x = before.x_vector
    /\ interior_iterations[1] # interior_iterations[2]

\* C18: once done is true, no event other than a Start invokes the engine,
\* and done stays true until a Start or a Reset; a SetInitialPoint does not
\* clear it.
C18_DoneIsTerminal ==
    [][(done /\ event' # "StartInteriorPoint") =>
          /\ calls' = calls
          /\ UNCHANGED engine
          /\ event' # "Reset" => done']_vars

\* a NextStep refused after a SetInitialPoint on the terminal Problem: the x
\* held is not the x of the last engine call
C18_Witness ==
    /\ event = "NextStep"
    /\ done
    /\ HasProblem
    /\ current_problem.x_vector # problem.x_vector

\* C19 (as claimed): for every two consecutive snapshots of the list, the D
\* of the later one is built from the current_x of the earlier one.
C19_ConsecutiveSnapshots ==
    \A k \in 1..(Len(interior_iterations) - 1) :
        interior_iterations[k + 1].d_matrix =
            create_d_matrix(interior_iterations[k].current_x)

\* the x of the Problem held is the current_x of the last snapshot
InSync ==
    (HasProblem /\ interior_iterations # <<>>) =>
        current_problem.x_vector = Last(interior_iterations).current_x

\* C19 (amended): the x of the Problem changes through an accepted iteration
\* or through a SetInitialPoint event (or a Start, which replaces the
\* Problem); every event other than SetInitialPoint keeps the x held equal to
\* the current_x of the last snapshot, and a snapshot appended by NextStep
\* with no SetInitialPoint since the previous one has the D built from the
\* previous snapshot's current_x.
C19_ChainUnlessPointSet ==
    [][/\ (HasProblem /\ current_problem' # NoProblem
             /\ current_problem'.x_vector # current_problem.x_vector) =>
            \/ event' \in {"SetInitialPoint", "StartInteriorPoint"}
            \/ event' = "NextStep" /\ outcome' = "Ok" /\ calls' = calls + 1
       /\ (InSync /\ event' # "SetInitialPoint") => InSync'
       /\ (InSync /\ interior_iterations # <<>> /\ event' = "NextStep"
             /\ Len(interior_iterations') = Len(interior_iterations) + 1) =>
            Last(interior_iterations').d_matrix =
                create_d_matrix(Last(interior_iterations).current_x)]_vars

\* two consecutive snapshots with no SetInitialPoint between them
C19_Witness ==
    /\ event = "NextStep"
    /\ Len(interior_iterations) = 2
    /\ before.x_vector = interior_iterations[1].current_x
    /\ interior_iterations[2].d_matrix = create_d_matrix(interior_iterations[1].current_x)
    /\ interior_iterations[2].d_matrix # interior_iterations[1].d_matrix

\* C20: a Start performs the first iteration itself and replaces the
\* session: after it the list holds exactly the snapshot of that iteration
\* and done is false if it succeeded, and otherwise the list is empty, done
\* is true and error_message is set.
C20_StartReplacesSession ==
    [][event' = "StartInteriorPoint" =>
          /\ calls' = calls + 1
          /\ current_problem' = problem'
          /\ initial' = before'
          /\ IF outcome' = "Ok"
             THEN /\ interior_iterations' = <<snapshot'>>
                  /\ done' = FALSE
             ELSE /\ interior_iterations' = <<>>
                  /\ done' = TRUE
                  /\ error_message' # NoMessage]_vars

\* a second Start that succeeded
C20_Witness ==
    /\ event = "StartInteriorPoint"
    /\ calls = 2
    /\ outcome = "Ok"
    /\ interior_iterations = <<snapshot>>
    /\ ~done

\* C21: whenever error_message is set, done is true and the snapshot list
\* is empty; and a NextStep whose engine call fails, with at least one
\* snapshot in the list, sets done, keeps the list and leaves error_message
\* unset.
C21_ErrorOnlyFromStart ==
    /\ [](error_message # NoMessage => (done /\ interior_iterations = <<>>))
    /\ [][(event' = "NextStep" /\ calls' = calls + 1 /\ outcome' # "Ok"
            /\ interior_iterations # <<>>) =>
              /\ done'
              /\ interior_iterations' = interior_iterations
              /\ error_message = NoMessage
              /\ error_message' = NoMessage]_vars

\* a NextStep that failed in the engine after a first snapshot: the session
\* is done, the snapshot is kept and no message is set
C21_Witness ==
    /\ event = "NextStep"
    /\ calls = 2
    /\ outcome # "Ok"
    /\ Len(interior_iterations) = 1
    /\ done
    /\ error_message = NoMessage

\* the dimensions of a Problem: n variables, m constraints, A m x n, c and x
\* of length n, b of length m
WellFormed(q) ==
    /\ Len(q.x_vector) >= 1
    /\ Len(q.b_vector) >= 1
    /\ Len(q.a_matrix) = Len(q.b_vector)
    /\ \A i \in 1..Len(q.a_matrix) : Len(q.a_matrix[i]) = Len(q.x_vector)
    /\ Len(q.c_vector) = Len(q.x_vector)

\* C16 (as claimed): after any sequence of form events followed by Submit,
\* the Problem App constructs has n >= 1, m >= 1, A of m x n, c and x of
\* length n and b of length m.
C16_ProblemWellFormed ==
    event = "Submit" => WellFormed(initial)

\* C17 (as claimed): after any UpdateAlpha events the form's alpha is
\* strictly between 0 and 1, and so is the alpha of every Problem handed to
\* the engine.
C17_AlphaInOpenInterval ==
    /\ Lt(Zero, form.alpha) /\ Lt(form.alpha, One)
    /\ calls > 0 => (Lt(Zero, before.alpha) /\ Lt(before.alpha, One))

=============================================================================
